---- MODULE Spec2Model ----
(***************************************************************************)
(* Escape-sequence re-encoding (transformEscapeSequences and the cached    *)
(* per-target transformer of createTransformer) and the UTF-8 byte-escape  *)
(* encoder (encodeUTF8).                                                   *)
(*                                                                         *)
(* Text is a sequence of UTF-16 code units (integers), indexed from 1 in   *)
(* TLA+ and from 0 in the source; every operator below takes and returns   *)
(* the source's 0-based offsets.                                           *)
(***************************************************************************)
EXTENDS Integers, Sequences, FiniteSets, TLC

VARIABLES
    cache,      \* Map<LuaTarget, transformer>: target -> [head, start, buffer] of its closure
    pc,         \* position of the rewrite call: "idle", "scan", "assemble", "done"
    node,       \* the StringNode argument of the current call
    context,    \* the TransformationContext argument: [luaTarget, diagnostics]
    text,       \* closure local text
    textStart,  \* closure local textStart
    textEnd,    \* closure local textEnd
    result,     \* the value the current call returned
    calls,      \* number of transformEscapeSequences calls made so far
    created,    \* the targets createTransformer was invoked for, in order
    other,      \* a second rewrite call in flight: [pc, node, context, text, textStart, textEnd, result]
    upc,        \* position of the encodeUTF8 call: "idle", "loop", "done"
    str,        \* encodeUTF8 argument
    head,       \* encodeUTF8 local head
    tail,       \* encodeUTF8 local tail
    buffer,     \* encodeUTF8 local buffer
    encoded     \* the value encodeUTF8 returned

vars == <<cache, pc, node, context, text, textStart, textEnd, result, calls,
          created, other, upc, str, head, tail, buffer, encoded>>

scanVars == <<cache, pc, node, context, text, textStart, textEnd, result, calls,
              created, other>>
utf8Vars == <<upc, str, head, tail, buffer, encoded>>

(***************************************************************************)
(* Bounds of the model.                                                    *)
(***************************************************************************)
MaxPieces == 3      \* a literal body is a concatenation of at most this many pieces
MaxCalls == 2       \* a literal is rewritten, and its output rewritten again
MaxStrLen == 3      \* code units of an encodeUTF8 argument

(***************************************************************************)
(* Character codes.                                                        *)
(***************************************************************************)
DoubleQuote == 34
Slash == 92
U == 117
X == 120
OpenBrace == 123
CloseBrace == 125
NaN == -1           \* the value of Number(...) on a non-number, of charCodeAt out of range
Undefined == <<-2>>     \* the value undefined: no text, since every code unit is >= 0

Digits == 48..57
HexDigits == (48..57) \cup (65..70) \cup (97..102)
WhiteSpace == {9, 10, 11, 12, 13, 32}

Max(a, b) == IF a > b THEN a ELSE b
Min(a, b) == IF a < b THEN a ELSE b

(***************************************************************************)
(* String primitives of the runtime, with their out-of-range behaviour.    *)
(***************************************************************************)
\* String.prototype.slice(from, to)
Slice(s, from, to) ==
    LET len == Len(s)
        f == IF from < 0 THEN Max(len + from, 0) ELSE Min(from, len)
        t == IF to < 0 THEN Max(len + to, 0) ELSE Min(to, len)
    IN  IF f >= t THEN <<>> ELSE SubSeq(s, f + 1, t)

\* String.prototype.indexOf of a single character, from position `from`
IndexOf(s, ch, from) ==
    LET hits == {i \in Max(from, 0)..(Len(s) - 1) : s[i + 1] = ch}
    IN  IF hits = {} THEN -1 ELSE CHOOSE i \in hits : \A j \in hits : i <= j

\* String.prototype.charCodeAt
CharCodeAt(s, i) == IF i >= 0 /\ i < Len(s) THEN s[i + 1] ELSE NaN

HexDigitValue(c) ==
    IF c \in 48..57 THEN c - 48
    ELSE IF c \in 65..70 THEN c - 55
    ELSE c - 87

RECURSIVE StripTrailingSpace(_)
StripTrailingSpace(s) ==
    IF s # <<>> /\ s[Len(s)] \in WhiteSpace
    THEN StripTrailingSpace(SubSeq(s, 1, Len(s) - 1))
    ELSE s

RECURSIVE HexValue(_)
HexValue(s) ==
    IF s = <<>> THEN 0
    ELSE 16 * HexValue(SubSeq(s, 1, Len(s) - 1)) + HexDigitValue(s[Len(s)])

\* Number("0x" + s): the hexadecimal value of s, NaN when s is no run of hex digits
NumberHex(s) ==
    LET d == StripTrailingSpace(s)
    IN  IF d # <<>> /\ \A i \in 1..Len(d) : d[i] \in HexDigits
        THEN HexValue(d)
        ELSE NaN

\* Number.prototype.toString(10) / template interpolation of a number
RECURSIVE NumberToString(_)
NumberToString(n) ==
    IF n = NaN THEN <<78, 97, 78>>
    ELSE IF n < 10 THEN <<48 + n>>
    ELSE NumberToString(n \div 10) \o <<48 + (n % 10)>>

(***************************************************************************)
(* Targets.                                                                *)
(***************************************************************************)
LuaTarget == {"Lua50", "Lua51", "Lua52", "Lua53"}
unsupportedUnicodeTargets == {"Lua50", "Lua51", "Lua52"}
unsupportedHexTargets == {"Lua50", "Lua51"}

(***************************************************************************)
(* The transformer closure of createTransformer.  st is the closure's      *)
(* mutable state [head, start, buffer]; every sequence parser returns      *)
(* [st, context, ok]: the new closure state, the context with whatever it  *)
(* pushed, and its boolean result.                                         *)
(***************************************************************************)
createTransformer == [head |-> 0, start |-> 0, buffer |-> <<>>]

unsupportedUnicodeEscape(nd, tgt) ==
    [name |-> "unsupportedUnicodeEscape", node |-> nd, target |-> tgt]

\* mutant: bufferAppend moves head but leaves start where it was
bufferAppend_StartLeftBehind(st, txt, token, end, nextHead) ==
    [head |-> nextHead,
     start |-> st.start,
     buffer |-> st.buffer \o Slice(txt, st.start, end) \o token]

\* mutant: bufferAppend moves start but leaves head where it was
bufferAppend_HeadLeftBehind(st, txt, token, end, nextHead) ==
    [head |-> st.head,
     start |-> nextHead,
     buffer |-> st.buffer \o Slice(txt, st.start, end) \o token]

bufferAppend(st, txt, token, end, nextHead) ==
    [head |-> nextHead,
     start |-> nextHead,
     buffer |-> st.buffer \o Slice(txt, st.start, end) \o token]

\* mutant: the chunk before the token is copied up to head, not head - 1
transformHexEscape_KeepsSlash(st, txt) ==
    LET nextHead == st.head + 3
        decimal == NumberHex(Slice(txt, st.head + 1, nextHead))
    IN  bufferAppend(st, txt, <<Slash>> \o NumberToString(decimal), st.head, nextHead)

transformHexEscape(st, txt) ==
    LET nextHead == st.head + 3
        decimal == NumberHex(Slice(txt, st.head + 1, nextHead))
        \* `\${decimal}`: the digits of the one value of decimal
        token == CHOOSE t \in {<<Slash>> \o NumberToString(d) : d \in {decimal}} : TRUE
    IN  bufferAppend(st, txt, token, st.head - 1, nextHead)

\* mutant: the braced form is not skipped
transformUnicodeEscape_NoBraceCheck(st, txt) ==
    LET h == st.head + 1
        next == h + 4
    IN  bufferAppend([st EXCEPT !.head = h], txt,
                     <<Slash, U, OpenBrace>> \o Slice(txt, h, next) \o <<CloseBrace>>,
                     h - 2, next)

transformUnicodeEscape(st, txt) ==
    LET h == st.head + 1
        next == h + 4
    IN  IF CharCodeAt(txt, h) = OpenBrace
        THEN [st EXCEPT !.head = h]
        ELSE bufferAppend([st EXCEPT !.head = h], txt,
                          <<Slash, U, OpenBrace>> \o Slice(txt, h, next) \o <<CloseBrace>>,
                          h - 2, next)

\* mutant: the diagnostic is pushed for every target
parseUnicodeEscape_ReportsEveryTarget(tgt, st, txt, nd, ctx) ==
    [st |-> st,
     context |-> [ctx EXCEPT !.diagnostics =
                     Append(@, unsupportedUnicodeEscape(nd, tgt))],
     ok |-> FALSE]

parseUnicodeEscape(tgt, st, txt, nd, ctx) ==
    IF tgt \notin unsupportedUnicodeTargets
    THEN [st |-> transformUnicodeEscape(st, txt), context |-> ctx, ok |-> TRUE]
    ELSE [st |-> st,
          context |-> [ctx EXCEPT !.diagnostics =
                          Append(@, unsupportedUnicodeEscape(nd, tgt))],
          ok |-> FALSE]

\* mutant: the hex escape is transformed for every target
parseHexEscape_EveryTarget(tgt, st, txt, nd, ctx) ==
    [st |-> transformHexEscape(st, txt), context |-> ctx, ok |-> TRUE]

\* mutant: the native strategy does not move head past the x
parseHexEscape_NoAdvance(tgt, st, txt, nd, ctx) ==
    IF tgt \in unsupportedHexTargets
    THEN [st |-> transformHexEscape(st, txt), context |-> ctx, ok |-> TRUE]
    ELSE [st |-> st, context |-> ctx, ok |-> TRUE]

parseHexEscape(tgt, st, txt, nd, ctx) ==
    IF tgt \in unsupportedHexTargets
    THEN [st |-> transformHexEscape(st, txt), context |-> ctx, ok |-> TRUE]
    ELSE [st |-> [st EXCEPT !.head = @ + 1], context |-> ctx, ok |-> TRUE]

\* mutant: the default case does not skip the discriminator
parseEscapeSequence_DiscriminatorKept(tgt, st, txt, nd, ctx) ==
    LET s1 == [st EXCEPT !.head = @ + 1]
        c == CharCodeAt(txt, s1.head)
    IN  IF c = X THEN parseHexEscape(tgt, s1, txt, nd, ctx)
        ELSE IF c = U THEN parseUnicodeEscape(tgt, s1, txt, nd, ctx)
        ELSE [st |-> s1, context |-> ctx, ok |-> TRUE]

parseEscapeSequence(tgt, st, txt, nd, ctx) ==
    LET s1 == [st EXCEPT !.head = @ + 1]
        c == CharCodeAt(txt, s1.head)
    IN  IF c = X THEN parseHexEscape(tgt, s1, txt, nd, ctx)
        ELSE IF c = U THEN parseUnicodeEscape(tgt, s1, txt, nd, ctx)
        ELSE [st |-> [s1 EXCEPT !.head = @ + 1], context |-> ctx, ok |-> TRUE]

\* Extract node text and its positions: [text, textStart, textEnd]
extractText(nd) ==
    IF nd.kind = "StringLiteral"
    THEN IF nd.synthesized
         THEN [text |-> nd.text, textStart |-> 0, textEnd |-> Len(nd.text)]
         ELSE [text |-> nd.sourceText, textStart |-> 1, textEnd |-> Len(nd.sourceText) - 1]
    ELSE LET raw == IF nd.rawText = Undefined THEN <<>> ELSE nd.rawText
         IN  [text |-> raw, textStart |-> 0, textEnd |-> Len(raw)]

\* mutant: the final chunk runs to the end of the text, not to textEnd
assembleResult_ToEndOfText(st, txt, tStart, tEnd) ==
    (IF st.start # tStart THEN st.buffer ELSE <<>>) \o Slice(txt, st.start, Len(txt))

\* mutant: the buffer is prepended also after an abort
assembleResult_AlwaysBuffer(st, txt, tStart, tEnd) ==
    st.buffer \o Slice(txt, st.start, tEnd)

\* The value the closure returns once the scan has ended
assembleResult(st, txt, tStart, tEnd) ==
    (IF st.start # tStart THEN st.buffer ELSE <<>>) \o Slice(txt, st.start, tEnd)

(***************************************************************************)
(* Nodes.  A node carries the fields the transformer reads: pos, kind, the *)
(* Synthesized flag, text, getText() (sourceText) and rawText.  A field    *)
(* the transformer never reads for that node is Undefined.                 *)
(***************************************************************************)
DetachedLiteral(b) ==
    [pos |-> -1, kind |-> "StringLiteral", synthesized |-> TRUE,
     text |-> b, sourceText |-> Undefined, rawText |-> Undefined]
SynthesizedLiteral(b) ==
    [pos |-> 0, kind |-> "StringLiteral", synthesized |-> TRUE,
     text |-> b, sourceText |-> Undefined, rawText |-> Undefined]
ParsedLiteral(b) ==
    [pos |-> 0, kind |-> "StringLiteral", synthesized |-> FALSE,
     text |-> Undefined, sourceText |-> <<DoubleQuote>> \o b \o <<DoubleQuote>>,
     rawText |-> Undefined]
TemplateLiteral(b) ==
    [pos |-> 0, kind |-> "NoSubstitutionTemplateLiteral", synthesized |-> FALSE,
     text |-> Undefined, sourceText |-> Undefined, rawText |-> b]
TemplateWithoutRawText ==
    [pos |-> 0, kind |-> "NoSubstitutionTemplateLiteral", synthesized |-> FALSE,
     text |-> Undefined, sourceText |-> Undefined, rawText |-> Undefined]

\* The literal body a node stands for, and the same node holding another body
Body(nd) ==
    IF nd.kind = "StringLiteral"
    THEN IF nd.pos = -1 \/ nd.synthesized
         THEN nd.text
         ELSE Slice(nd.sourceText, 1, Len(nd.sourceText) - 1)
    ELSE IF nd.rawText = Undefined THEN <<>> ELSE nd.rawText

WithBody(nd, b) ==
    IF nd.kind = "StringLiteral"
    THEN IF nd.pos = -1 THEN DetachedLiteral(b)
         ELSE IF nd.synthesized THEN SynthesizedLiteral(b)
         ELSE ParsedLiteral(b)
    ELSE IF nd.rawText = Undefined THEN nd ELSE TemplateLiteral(b)

(***************************************************************************)
(* Literal bodies: concatenations of at most MaxPieces pieces.             *)
(***************************************************************************)
Pieces ==
    { <<97>>,                               \* a
      <<49>>,                               \* 1
      <<Slash, X>>,                         \* \x
      <<Slash, U>>,                         \* \u
      <<Slash, X, 52, 49>>,                 \* \x41
      <<Slash, U, 48, 48, 52, 49>>,         \* \u0041
      <<Slash, U, OpenBrace, 52, 49, CloseBrace>>,  \* \u{41}
      <<Slash, Slash>>,                     \* \\
      <<X, 52, 49>>,                        \* x41
      <<U, 48, 48, 52, 49>> }               \* u0041

RECURSIVE TextsOf(_)
TextsOf(n) ==
    IF n = 0 THEN {<<>>}
    ELSE LET shorter == TextsOf(n - 1)
         IN  shorter \cup {p \o t : p \in Pieces, t \in shorter}

\* the nodes that carry the literal body b
NodesOf(b) ==
    {DetachedLiteral(b), SynthesizedLiteral(b), ParsedLiteral(b), TemplateLiteral(b)}
    \cup (IF b = <<>> THEN {TemplateWithoutRawText} ELSE {})

(***************************************************************************)
(* transformEscapeSequences(node, context), in three steps: the cache      *)
(* lookup and the closure's entry up to the cursor reset; one iteration of *)
(* the scan loop; the assembly of the result.                              *)
(***************************************************************************)
\* mutant: the cache lookup never finds an entry
cacheHas_Never(c, target) == FALSE

\* cache.has(target)
cacheHas(c, target) == target \in DOMAIN c

\* cache.set(target, createTransformer(target))
cacheSet(c, target, transformer) ==
    [t \in DOMAIN c \cup {target} |-> IF t = target THEN transformer ELSE c[t]]

\* mutant: the closure keeps the cursor and the buffer of its last call
resetCursor_Missing(st, tStart) == st

\* head = textStart; start = head; buffer = ""
resetCursor(st, tStart) == [head |-> tStart, start |-> tStart, buffer |-> <<>>]

\* The cache lookup and the closure's entry up to the cursor reset:
\* the cache, the closure locals, the returned value and the call's position after it
enterTransformer(c, nd, ctx) ==
    LET target == ctx.luaTarget
        has == cacheHas(c, target)
        built == IF has THEN c ELSE cacheSet(c, target, createTransformer)
        ex == extractText(nd)
    IN  IF nd.pos = -1
        THEN [cache |-> built, creates |-> ~has, text |-> Undefined,
              textStart |-> 0, textEnd |-> 0, result |-> nd.text, pc |-> "done"]
        ELSE IF Len(ex.text) = 0
        THEN [cache |-> built, creates |-> ~has, text |-> ex.text,
              textStart |-> ex.textStart, textEnd |-> ex.textEnd,
              result |-> <<>>, pc |-> "done"]
        ELSE [cache |-> [built EXCEPT ![target] = resetCursor(@, ex.textStart)],
              creates |-> ~has, text |-> ex.text,
              textStart |-> ex.textStart, textEnd |-> ex.textEnd,
              result |-> Undefined, pc |-> "scan"]

\* while ((head = text.indexOf("\\", head)) >= 0) { if (!parseEscapeSequence(...)) {...} }
\* one evaluation of the loop condition and, if it holds, of the loop body
scanStep(st, txt, tStart, nd, ctx) ==
    LET target == ctx.luaTarget
        found == IndexOf(txt, Slash, st.head)
        \* the parser's result on the closure state with head = found
        r == CHOOSE p \in {parseEscapeSequence(target, s, txt, nd, ctx) :
                               s \in {[st EXCEPT !.head = found]}} : TRUE
    IN  IF found < 0
        THEN [st |-> [st EXCEPT !.head = found], context |-> ctx, pc |-> "assemble"]
        ELSE IF r.ok
        THEN [st |-> r.st, context |-> r.context, pc |-> "scan"]
        ELSE [st |-> [r.st EXCEPT !.start = tStart], context |-> r.context,
              pc |-> "assemble"]

transformEscapeSequences(nd, ctx) ==
    LET e == enterTransformer(cache, nd, ctx)
    IN  /\ node' = nd
        /\ context' = ctx
        /\ calls' = calls + 1
        /\ cache' = e.cache
        /\ created' = IF e.creates THEN Append(created, ctx.luaTarget) ELSE created
        /\ text' = e.text
        /\ textStart' = e.textStart
        /\ textEnd' = e.textEnd
        /\ result' = e.result
        /\ pc' = e.pc
        /\ UNCHANGED other
        /\ UNCHANGED utf8Vars

LoopIteration ==
    /\ pc = "scan"
    /\ \E r \in {scanStep(cache[context.luaTarget], text, textStart, node, context)} :
           /\ cache' = [cache EXCEPT ![context.luaTarget] = r.st]
           /\ context' = r.context
           /\ pc' = r.pc
    /\ UNCHANGED <<node, text, textStart, textEnd, result, calls, created, other>>
    /\ UNCHANGED utf8Vars

Assemble ==
    /\ pc = "assemble"
    /\ LET target == context.luaTarget
       IN  /\ result' = assembleResult(cache[target], text, textStart, textEnd)
           /\ cache' = [cache EXCEPT ![target].buffer = <<>>]
    /\ pc' = "done"
    /\ UNCHANGED <<node, context, text, textStart, textEnd, calls, created, other>>
    /\ UNCHANGED utf8Vars

\* The first literal compiled in the process
FirstCall ==
    /\ pc = "idle"
    /\ calls = 0
    /\ \E tgt \in LuaTarget, b \in TextsOf(MaxPieces) :
          \E nd \in NodesOf(b) :
             transformEscapeSequences(nd, [luaTarget |-> tgt, diagnostics |-> <<>>])

\* The text a call returned is compiled again, as the same kind of node for the same target
CallAgain ==
    /\ pc = "done"
    /\ calls < MaxCalls
    /\ transformEscapeSequences(WithBody(node, result),
                                [luaTarget |-> context.luaTarget, diagnostics |-> <<>>])

\* no second call is in flight
IdleCall ==
    [pc |-> "idle", node |-> Undefined, context |-> Undefined, text |-> Undefined,
     textStart |-> 0, textEnd |-> 0, result |-> Undefined]

Init ==
    /\ cache = <<>>
    /\ pc = "idle"
    /\ node = Undefined
    /\ context = Undefined
    /\ text = Undefined
    /\ textStart = 0
    /\ textEnd = 0
    /\ result = Undefined
    /\ calls = 0
    /\ created = <<>>
    /\ other = IdleCall
    /\ upc = "idle"
    /\ str = <<>>
    /\ head = 0
    /\ tail = 0
    /\ buffer = <<>>
    /\ encoded = Undefined

Next ==
    \/ FirstCall
    \/ CallAgain
    \/ LoopIteration
    \/ Assemble

Spec == Init /\ [][Next]_vars

\* The closure is synchronous: a call that has entered the scan takes its
\* next step until it has returned.
FairSpec == Spec /\ WF_vars(LoopIteration) /\ WF_vars(Assemble)

(***************************************************************************)
(* Any sequence of calls with any targets: every call of the process goes  *)
(* through the one module-level cache.                                     *)
(***************************************************************************)
CacheTexts ==
    { <<>>,
      <<97>>,                                                   \* a
      <<Slash, X, 52, 49>>,                                     \* \x41
      <<Slash, U, 48, 48, 52, 49>>,                             \* \u0041
      <<97, Slash, X, 52, 49, Slash, U, 48, 48, 52, 49, 49>>,   \* a\x41\u00411
      <<Slash, U, OpenBrace, 52, 49, CloseBrace, Slash, Slash>>,\* \u{41}\\
      <<Slash, X, 52, 49, Slash, U>> }                          \* \x41\u

AnyCall ==
    /\ pc \in {"idle", "done"}
    /\ calls < MaxCalls
    /\ \E tgt \in LuaTarget, b \in CacheTexts :
          \E nd \in NodesOf(b) :
             transformEscapeSequences(nd, [luaTarget |-> tgt, diagnostics |-> <<>>])

NextCache ==
    \/ AnyCall
    \/ LoopIteration
    \/ Assemble

SpecCache == Init /\ [][NextCache]_vars

(***************************************************************************)
(* Two calls in flight at once, their steps interleaved.  Each call has    *)
(* its own node, context, text, textStart and textEnd (parameters and      *)
(* locals of the invocation); head, start and buffer are the variables of  *)
(* the transformer's closure, one set per cached transformer.              *)
(***************************************************************************)
InterleavedTexts ==
    { <<97>>,                                   \* a
      <<Slash, X, 52, 49>>,                     \* \x41
      <<97, Slash, X, 52, 49>>,                 \* a\x41
      <<Slash, U, 48, 48, 52, 49, 49>>,         \* \u00411
      <<Slash, X, 52, 49, Slash, U, 48, 48, 52, 49>> }  \* \x41\u0041

InterleavedNodes == {nd \in UNION {NodesOf(b) : b \in InterleavedTexts} : nd.pos # -1}

ConcurrentCall ==
    /\ pc = "idle"
    /\ \E tgt \in LuaTarget, nd \in InterleavedNodes :
          transformEscapeSequences(nd, [luaTarget |-> tgt, diagnostics |-> <<>>])

OtherCall ==
    /\ other.pc = "idle"
    /\ \E tgt \in LuaTarget, nd \in InterleavedNodes :
          LET ctx == [luaTarget |-> tgt, diagnostics |-> <<>>]
              e == enterTransformer(cache, nd, ctx)
          IN  /\ cache' = e.cache
              /\ created' = IF e.creates THEN Append(created, tgt) ELSE created
              /\ other' = [pc |-> e.pc, node |-> nd, context |-> ctx, text |-> e.text,
                           textStart |-> e.textStart, textEnd |-> e.textEnd,
                           result |-> e.result]
    /\ calls' = calls + 1
    /\ UNCHANGED <<pc, node, context, text, textStart, textEnd, result>>
    /\ UNCHANGED utf8Vars

OtherLoopIteration ==
    /\ other.pc = "scan"
    /\ \E r \in {scanStep(cache[other.context.luaTarget], other.text, other.textStart,
                            other.node, other.context)} :
           /\ cache' = [cache EXCEPT ![other.context.luaTarget] = r.st]
           /\ other' = [other EXCEPT !.context = r.context, !.pc = r.pc]
    /\ UNCHANGED <<pc, node, context, text, textStart, textEnd, result, calls, created>>
    /\ UNCHANGED utf8Vars

OtherAssemble ==
    /\ other.pc = "assemble"
    /\ LET target == other.context.luaTarget
       IN  /\ other' = [other EXCEPT
                           !.result = assembleResult(cache[target], other.text,
                                                     other.textStart, other.textEnd),
                           !.pc = "done"]
           /\ cache' = [cache EXCEPT ![target].buffer = <<>>]
    /\ UNCHANGED <<pc, node, context, text, textStart, textEnd, result, calls, created>>
    /\ UNCHANGED utf8Vars

NextInterleaved ==
    \/ ConcurrentCall
    \/ OtherCall
    \/ LoopIteration
    \/ Assemble
    \/ OtherLoopIteration
    \/ OtherAssemble

SpecInterleaved == Init /\ [][NextInterleaved]_vars

(***************************************************************************)
(* encodeUTF8 and its helpers.  The bitwise operators are computed bit by  *)
(* bit on naturals.                                                        *)
(***************************************************************************)
RECURSIVE BitAnd(_, _)
BitAnd(a, b) ==
    IF a = 0 \/ b = 0 THEN 0
    ELSE (a % 2) * (b % 2) + 2 * BitAnd(a \div 2, b \div 2)

RECURSIVE BitOr(_, _)
BitOr(a, b) ==
    IF a = 0 THEN b
    ELSE IF b = 0 THEN a
    ELSE Max(a % 2, b % 2) + 2 * BitOr(a \div 2, b \div 2)

ShiftRight(a, n) == a \div (2 ^ n)

\* String.prototype.codePointAt
CodePointAt(s, i) ==
    LET first == s[i + 1]
    IN  IF /\ first \in 55296..56319
           /\ i + 1 < Len(s)
           /\ s[i + 2] \in 56320..57343
        THEN (first - 55296) * 1024 + (s[i + 2] - 56320) + 65536
        ELSE first

byteToString(byte) == <<Slash>> \o NumberToString(byte)

\* mutant: the continuation byte keeps seven bits of the code point
encodeByte_SevenBits(byte) == byteToString(BitOr(128, BitAnd(byte, 127)))

encodeByte(byte) == byteToString(BitOr(128, BitAnd(byte, 63)))

encodeCodePoint(val) ==
    LET chunk ==
            IF val < 2048
            THEN byteToString(BitOr(192, BitAnd(ShiftRight(val, 6), 63)))
            ELSE IF val < 65536
            THEN byteToString(BitOr(224, BitAnd(ShiftRight(val, 12), 31)))
                 \o encodeByte(ShiftRight(val, 6))
            ELSE byteToString(BitOr(240, BitAnd(ShiftRight(val, 18), 15)))
                 \o encodeByte(ShiftRight(val, 12))
                 \o encodeByte(ShiftRight(val, 6))
    IN  chunk \o encodeByte(val)

\* mutant: only code points above 0x7FF count as Unicode characters
isUnicodeCharacter_Above7FF(codePoint) == codePoint > 2047

\* mutant: everything outside ASCII counts as a Unicode character
isUnicodeCharacter_AboveAscii(codePoint) == codePoint > 127

\* if (codePoint > 0xFF)
isUnicodeCharacter(codePoint) == codePoint > 255

\* mutant: low surrogates are encoded like any other code unit
isNotLowSurrogate_Never(codePoint) == TRUE

\* if ((codePoint < 0xDC00) || (codePoint > 0xDFFF))
isNotLowSurrogate(codePoint) == codePoint < 56320 \/ codePoint > 57343

CodeUnits == {65, 233, 255, 256, 2047, 2048, 65535, 55357, 56832}

Strings == UNION {[1..n -> CodeUnits] : n \in 0..MaxStrLen}

encodeUTF8(s) ==
    /\ str' = s
    /\ head' = 0
    /\ tail' = 0
    /\ buffer' = <<>>
    /\ encoded' = Undefined
    /\ upc' = "loop"
    /\ UNCHANGED scanVars

CallEncode ==
    /\ upc = "idle"
    /\ \E s \in Strings : encodeUTF8(s)

\* one iteration of while (tail < str.length)
EncodeIteration ==
    /\ upc = "loop"
    /\ tail < Len(str)
    /\ LET codePoint == CodePointAt(str, tail)
       IN  IF isUnicodeCharacter(codePoint)
           THEN /\ buffer' = buffer \o Slice(str, head, tail)
                              \o (IF isNotLowSurrogate(codePoint)
                                  THEN encodeCodePoint(codePoint)
                                  ELSE <<>>)
                /\ head' = tail + 1
           ELSE UNCHANGED <<buffer, head>>
    /\ tail' = tail + 1
    /\ UNCHANGED <<upc, str, encoded>>
    /\ UNCHANGED scanVars

\* return buffer + str.slice(head, tail)
EncodeReturn ==
    /\ upc = "loop"
    /\ tail >= Len(str)
    /\ encoded' = buffer \o Slice(str, head, tail)
    /\ upc' = "done"
    /\ UNCHANGED <<str, head, tail, buffer>>
    /\ UNCHANGED scanVars

NextUTF8 ==
    \/ CallEncode
    \/ EncodeIteration
    \/ EncodeReturn

SpecUTF8 == Init /\ [][NextUTF8]_vars

(***************************************************************************)
(* The escape grammar of the source dialect, used to state the properties. *)
(* An escape is a backslash and its discriminator; \x carries two hex      *)
(* digits, a bare \u four, a braced \u{...} one or more up to the closing  *)
(* brace.  Positions are 1-based indices into s.                           *)
(***************************************************************************)
IsHexAt(s, i) == i >= 1 /\ i <= Len(s) /\ s[i] \in HexDigits

\* index of the first closing brace at or after i, 0 when there is none
ClosingBrace(s, i) ==
    LET hits == {j \in i..Len(s) : s[j] = CloseBrace}
    IN  IF hits = {} THEN 0 ELSE CHOOSE j \in hits : \A k \in hits : j <= k

IsBracedAt(s, i) ==
    /\ i + 2 <= Len(s)
    /\ s[i + 2] = OpenBrace
    /\ ClosingBrace(s, i + 3) > i + 3
    /\ \A j \in (i + 3)..(ClosingBrace(s, i + 3) - 1) : s[j] \in HexDigits

\* length of the well-formed escape that starts at the backslash s[i], 0 when malformed
EscapeLength(s, i) ==
    IF i + 1 > Len(s) THEN 0
    ELSE IF s[i + 1] = X
         THEN IF IsHexAt(s, i + 2) /\ IsHexAt(s, i + 3) THEN 4 ELSE 0
    ELSE IF s[i + 1] = U
         THEN IF i + 2 <= Len(s) /\ s[i + 2] = OpenBrace
              THEN IF IsBracedAt(s, i) THEN ClosingBrace(s, i + 3) - i + 1 ELSE 0
              ELSE IF \A j \in (i + 2)..(i + 5) : IsHexAt(s, j) THEN 6 ELSE 0
    ELSE 2

RECURSIVE WellFormedFrom(_, _)
WellFormedFrom(s, i) ==
    IF i > Len(s) THEN TRUE
    ELSE IF s[i] # Slash THEN WellFormedFrom(s, i + 1)
    ELSE EscapeLength(s, i) > 0 /\ WellFormedFrom(s, i + EscapeLength(s, i))

\* every escape of s is a well-formed token of the source dialect
WellFormed(s) == WellFormedFrom(s, 1)

\* the positions of the backslashes that start the escapes of a well-formed s
RECURSIVE EscapesFrom(_, _)
EscapesFrom(s, i) ==
    IF i > Len(s) THEN {}
    ELSE IF s[i] # Slash THEN EscapesFrom(s, i + 1)
    ELSE {i} \cup EscapesFrom(s, i + EscapeLength(s, i))

Escapes(s) == EscapesFrom(s, 1)

HasSlash(s) == \E i \in 1..Len(s) : s[i] = Slash
HasSlashU(s) == \E i \in 1..(Len(s) - 1) : s[i] = Slash /\ s[i + 1] = U
HasUnicodeToken(s) == \E i \in Escapes(s) : s[i + 1] = U

\* the unpadded base-10 digits of a byte value
ByteDigits(v) ==
    IF v < 10 THEN <<48 + v>>
    ELSE IF v < 100 THEN <<48 + (v \div 10), 48 + (v % 10)>>
    ELSE <<48 + (v \div 100), 48 + ((v \div 10) % 10), 48 + (v % 10)>>

\* a well-formed s with every \xHH token replaced by \ddd, all else copied
RECURSIVE HexRewrittenFrom(_, _)
HexRewrittenFrom(s, i) ==
    IF i > Len(s) THEN <<>>
    ELSE IF s[i] # Slash THEN <<s[i]>> \o HexRewrittenFrom(s, i + 1)
    ELSE IF s[i + 1] = X
         THEN <<Slash>> \o ByteDigits(16 * HexDigitValue(s[i + 2]) + HexDigitValue(s[i + 3]))
              \o HexRewrittenFrom(s, i + 4)
    ELSE SubSeq(s, i, i + EscapeLength(s, i) - 1)
         \o HexRewrittenFrom(s, i + EscapeLength(s, i))

HexRewritten(s) == HexRewrittenFrom(s, 1)

\* a well-formed s with every bare \uHHHH token replaced by \u{HHHH}, all else copied
RECURSIVE UnicodeRewrittenFrom(_, _)
UnicodeRewrittenFrom(s, i) ==
    IF i > Len(s) THEN <<>>
    ELSE IF s[i] # Slash THEN <<s[i]>> \o UnicodeRewrittenFrom(s, i + 1)
    ELSE IF s[i + 1] = U /\ s[i + 2] # OpenBrace
         THEN <<Slash, U, OpenBrace>> \o SubSeq(s, i + 2, i + 5) \o <<CloseBrace>>
              \o UnicodeRewrittenFrom(s, i + 6)
    ELSE SubSeq(s, i, i + EscapeLength(s, i) - 1)
         \o UnicodeRewrittenFrom(s, i + EscapeLength(s, i))

UnicodeRewritten(s) == UnicodeRewrittenFrom(s, 1)

\* the text span text[textStart, textEnd) of the current call
Span == Slice(text, textStart, textEnd)

\* the current call has returned, and it was given a node with a source position
Returned == pc = "done" /\ node.pos # -1

(***************************************************************************)
(* Properties of a rewrite call.  Every call of Spec is given a context    *)
(* whose diagnostics are empty, so context.diagnostics is what the call    *)
(* pushed.                                                                 *)
(***************************************************************************)

\* C1: for every target and every literal whose text span contains no
\* backslash, the call returns exactly text[textStart, textEnd) and pushes
\* no diagnostic.
C1_NoBackslashUnchanged ==
    (Returned /\ ~HasSlash(Span)) =>
        (result = Span /\ context.diagnostics = <<>>)

C1_Witness ==
    /\ Returned
    /\ node = ParsedLiteral(<<97, 49>>)
    /\ context.luaTarget = "Lua51"
    /\ result = <<97, 49>>

\* C2: on a target lacking hex escapes, for a literal of the source dialect
\* (every escape well formed) with no \u token, the result is the span with
\* every \xHH token replaced by a backslash and the unpadded base-10 value
\* of HH, and every other character once, unchanged and in order.
C2_HexToDecimal ==
    (/\ Returned
     /\ context.luaTarget \in unsupportedHexTargets
     /\ WellFormed(Span)
     /\ ~HasUnicodeToken(Span)) =>
        result = HexRewritten(Span)

\* a\x411 becomes a\651
C2_Witness ==
    /\ Returned
    /\ context.luaTarget = "Lua50"
    /\ Span = <<97, Slash, X, 52, 49, 49>>
    /\ result = <<97, Slash, 54, 53, 49>>

\* C3: on a target that supports hex escapes the hex strategy never appends
\* to the buffer and never moves start, so a literal in which nothing else
\* can (no \u, or a target whose \u aborts) is returned as its span, \xHH
\* tokens included.
C3_NativeHexUntouched ==
    (/\ pc \in {"scan", "assemble", "done"}
     /\ node.pos # -1
     /\ context.luaTarget \notin unsupportedHexTargets
     /\ (context.luaTarget \in unsupportedUnicodeTargets \/ ~HasSlashU(text))) =>
        /\ pc # "done" =>
              /\ cache[context.luaTarget].buffer = <<>>
              /\ cache[context.luaTarget].start = textStart
        /\ pc = "done" => result = Span

C3_Witness ==
    /\ Returned
    /\ context.luaTarget = "Lua53"
    /\ Span = <<97, Slash, X, 52, 49, 49>>
    /\ result = Span

\* C4: on a target lacking all Unicode escapes a call pushes at most one
\* diagnostic; a call that pushed one returns text[textStart, textEnd)
\* exactly, whatever had been rewritten into the buffer before; and a call
\* on a literal of the source dialect that holds a \u token pushes one.
C4_UnicodeAbortPassThrough ==
    (Returned /\ context.luaTarget \in unsupportedUnicodeTargets) =>
        /\ Len(context.diagnostics) <= 1
        /\ Len(context.diagnostics) = 1 => result = Span
        /\ (WellFormed(Span) /\ HasUnicodeToken(Span)) => Len(context.diagnostics) = 1

\* \x41\u0041 on a target that rewrites \x41 before it reaches the \u
C4_Witness ==
    /\ Returned
    /\ context.luaTarget = "Lua51"
    /\ Span = <<Slash, X, 52, 49, Slash, U, 48, 48, 52, 49>>
    /\ Len(context.diagnostics) = 1
    /\ result = Span

\* C5: on a target that supports Unicode escapes no diagnostic is ever
\* pushed, and for a literal of the source dialect the result is the span
\* with every bare \uHHHH token replaced by \u{HHHH} and everything else,
\* braced \u{...} tokens included, unchanged.
C5_BareUnicodeBraced ==
    (/\ pc # "idle"
     /\ context.luaTarget \notin unsupportedUnicodeTargets) =>
        /\ context.diagnostics = <<>>
        /\ (Returned /\ WellFormed(Span)) => result = UnicodeRewritten(Span)

\* \u{41}\u0041 becomes \u{41}\u{0041}
C5_Witness ==
    /\ Returned
    /\ context.luaTarget = "Lua53"
    /\ Span = <<Slash, U, OpenBrace, 52, 49, CloseBrace, Slash, U, 48, 48, 52, 49>>
    /\ result = <<Slash, U, OpenBrace, 52, 49, CloseBrace,
                  Slash, U, OpenBrace, 48, 48, 52, 49, CloseBrace>>

\* C6: the rewrite is idempotent: a call whose literal is the text an
\* earlier call returned (same target, same kind of node) returns that text
\* unchanged.
C6_Idempotent ==
    (pc = "done" /\ calls >= 2) => result = Body(node)

(***************************************************************************)
(* What a literal denotes: the source dialect reads \xHH as the byte HH,   *)
(* the hex-lacking targets read a backslash and up to three decimal digits *)
(* as the byte of that value; both read \\ as a backslash.                 *)
(***************************************************************************)
\* the escapes of s are \xHH and \\ only
HexEscapesOnly(s) ==
    /\ WellFormed(s)
    /\ \A i \in Escapes(s) : s[i + 1] \in {X, Slash}

RECURSIVE DecodeSourceFrom(_, _)
DecodeSourceFrom(s, i) ==
    IF i > Len(s) THEN <<>>
    ELSE IF s[i] # Slash THEN <<s[i]>> \o DecodeSourceFrom(s, i + 1)
    ELSE IF s[i + 1] = X
         THEN <<16 * HexDigitValue(s[i + 2]) + HexDigitValue(s[i + 3])>>
              \o DecodeSourceFrom(s, i + 4)
    ELSE <<s[i + 1]>> \o DecodeSourceFrom(s, i + 2)

DecodeSource(s) == DecodeSourceFrom(s, 1)

\* the number of decimal digits, at most three, that start at s[i]
DecimalRun(s, i) ==
    IF i > Len(s) \/ s[i] \notin Digits THEN 0
    ELSE IF i + 1 > Len(s) \/ s[i + 1] \notin Digits THEN 1
    ELSE IF i + 2 > Len(s) \/ s[i + 2] \notin Digits THEN 2
    ELSE 3

RECURSIVE DecimalValue(_)
DecimalValue(d) ==
    IF d = <<>> THEN 0
    ELSE 10 * DecimalValue(SubSeq(d, 1, Len(d) - 1)) + (d[Len(d)] - 48)

RECURSIVE DecodeTargetFrom(_, _)
DecodeTargetFrom(s, i) ==
    IF i > Len(s) THEN <<>>
    ELSE IF s[i] # Slash THEN <<s[i]>> \o DecodeTargetFrom(s, i + 1)
    ELSE IF DecimalRun(s, i + 1) > 0
         THEN <<DecimalValue(SubSeq(s, i + 1, i + DecimalRun(s, i + 1)))>>
              \o DecodeTargetFrom(s, i + 1 + DecimalRun(s, i + 1))
    ELSE IF i + 1 > Len(s) THEN <<s[i]>>
    ELSE <<s[i + 1]>> \o DecodeTargetFrom(s, i + 2)

DecodeTarget(s) == DecodeTargetFrom(s, 1)

\* C7: on a hex-lacking target the result, read by the target's rule (a
\* backslash and up to three decimal digits is one byte), denotes the same
\* bytes as the source literal's \xHH tokens, also when a \xHH token is
\* followed by a decimal digit.
C7_SameBytes ==
    (/\ Returned
     /\ calls = 1
     /\ context.luaTarget \in unsupportedHexTargets
     /\ HexEscapesOnly(Span)) =>
        DecodeTarget(result) = DecodeSource(Span)

(***************************************************************************)
(* Properties of encodeUTF8.  A string is read as code points the way      *)
(* UTF-16 is decoded: a high surrogate and the low surrogate after it are  *)
(* one code point, any other code unit is a code point of its own.         *)
(***************************************************************************)
IsHighSurrogate(c) == c \in 55296..56319
IsLowSurrogate(c) == c \in 56320..57343

\* a surrogate pair starts at the 1-based index i of s
IsPairAt(s, i) ==
    i >= 1 /\ i + 1 <= Len(s) /\ IsHighSurrogate(s[i]) /\ IsLowSurrogate(s[i + 1])

PairValue(hi, lo) == 65536 + (hi - 55296) * 1024 + (lo - 56320)

RECURSIVE CodePointsFrom(_, _)
CodePointsFrom(s, i) ==
    IF i > Len(s) THEN <<>>
    ELSE IF IsPairAt(s, i)
         THEN <<PairValue(s[i], s[i + 1])>> \o CodePointsFrom(s, i + 2)
    ELSE <<s[i]>> \o CodePointsFrom(s, i + 1)

CodePoints(s) == CodePointsFrom(s, 1)

\* the bytes of the UTF-8 encoding of a code point above 0x7F
UTF8Bytes(cp) ==
    IF cp < 2048 THEN <<192 + (cp \div 64), 128 + (cp % 64)>>
    ELSE IF cp < 65536
         THEN <<224 + (cp \div 4096), 128 + ((cp \div 64) % 64), 128 + (cp % 64)>>
    ELSE <<240 + (cp \div 262144), 128 + ((cp \div 4096) % 64),
           128 + ((cp \div 64) % 64), 128 + (cp % 64)>>

RECURSIVE ByteEscapes(_)
ByteEscapes(bytes) ==
    IF bytes = <<>> THEN <<>>
    ELSE <<Slash>> \o ByteDigits(bytes[1]) \o ByteEscapes(Tail(bytes))

\* every code point above 0xFF as the byte escapes of its UTF-8 encoding, the others kept
RECURSIVE EscapedAbove255(_)
EscapedAbove255(cps) ==
    IF cps = <<>> THEN <<>>
    ELSE (IF cps[1] > 255 THEN ByteEscapes(UTF8Bytes(cps[1])) ELSE <<cps[1]>>)
         \o EscapedAbove255(Tail(cps))

\* the same, with every unpaired low surrogate removed
RECURSIVE EscapedAbove255LowDropped(_)
EscapedAbove255LowDropped(cps) ==
    IF cps = <<>> THEN <<>>
    ELSE (IF IsLowSurrogate(cps[1]) THEN <<>>
          ELSE IF cps[1] > 255 THEN ByteEscapes(UTF8Bytes(cps[1]))
          ELSE <<cps[1]>>)
         \o EscapedAbove255LowDropped(Tail(cps))

\* C8 as stated: every code point above 0xFF is replaced by the decimal
\* byte escapes of its UTF-8 encoding, every other code point is kept, in
\* order.
C8_EveryCodePointEncoded ==
    upc = "done" => encoded = EscapedAbove255(CodePoints(str))

\* C8, amended: every code point above 0xFF other than an unpaired low
\* surrogate is replaced by the decimal byte escapes of its UTF-8 encoding
\* (2, 3 or 4 bytes), an unpaired low surrogate is removed, and every code
\* point at or below 0xFF is kept, in order.
C8_EncodedExceptUnpairedLow ==
    upc = "done" => encoded = EscapedAbove255LowDropped(CodePoints(str))

\* A, U+07FF, U+FFFF: one character kept, a two-byte and a three-byte encoding
C8_Witness ==
    /\ upc = "done"
    /\ str = <<65, 2047, 65535>>
    /\ encoded = <<65, Slash, 50, 50, 51, Slash, 49, 57, 49,
                   Slash, 50, 51, 57, Slash, 49, 57, 49, Slash, 49, 57, 49>>

\* C9 as stated: encodeUTF8 of the code point 0x00E9 is \195\169.
C9_EAcuteEscaped ==
    (upc = "done" /\ str = <<233>>) =>
        encoded = <<Slash, 49, 57, 53, Slash, 49, 54, 57>>

\* C9, amended: encodeUTF8 returns the code point 0x00E9 unchanged, because
\* it is not above 0xFF; \195\169 is what encodeCodePoint yields for it.
C9_EAcuteKept ==
    (upc = "done" /\ str = <<233>>) =>
        /\ encoded = <<233>>
        /\ encodeCodePoint(233) = <<Slash, 49, 57, 53, Slash, 49, 54, 57>>

C9_Witness ==
    /\ upc = "done"
    /\ str = <<233>>
    /\ encoded = <<233>>

\* C10: the iteration at a high surrogate that a low surrogate follows
\* appends the pending text and the four byte escapes of the pair's one
\* code point, and the iteration at that low surrogate appends nothing.
C10_SurrogatePairOnce ==
    [][/\ (upc = "loop" /\ IsPairAt(str, tail + 1)) =>
            /\ buffer' = buffer \o Slice(str, head, tail)
                   \o ByteEscapes(UTF8Bytes(PairValue(str[tail + 1], str[tail + 2])))
            /\ Len(UTF8Bytes(PairValue(str[tail + 1], str[tail + 2]))) = 4
            /\ tail' = tail + 1
       /\ (upc = "loop" /\ tail < Len(str) /\ IsPairAt(str, tail)) =>
            /\ buffer' = buffer
            /\ tail' = tail + 1
            /\ head' = tail']_vars

\* A followed by U+1F600 as D83D DE00 becomes A\240\159\152\128
C10_Witness ==
    /\ upc = "done"
    /\ str = <<65, 55357, 56832>>
    /\ encoded = <<65, Slash, 50, 52, 48, Slash, 49, 53, 57,
                   Slash, 49, 53, 50, Slash, 49, 50, 56>>

(***************************************************************************)
(* The transformer cache.                                                  *)
(***************************************************************************)
TimesCreated(t) == Cardinality({i \in 1..Len(created) : created[i] = t})

\* C11: over any sequence of calls with any targets, createTransformer has
\* been invoked exactly once for each target used so far (and for no other),
\* the call in progress runs the transformer cached for its target, and no
\* step removes a cache entry or creates a transformer for a target that
\* already has one: the instance a target got first serves every later call.
C11_OneTransformerPerTarget ==
    /\ [](/\ \A t \in LuaTarget :
               TimesCreated(t) = (IF t \in DOMAIN cache THEN 1 ELSE 0)
          /\ pc # "idle" => context.luaTarget \in DOMAIN cache)
    /\ [][/\ DOMAIN cache \subseteq DOMAIN cache'
          /\ SubSeq(created', 1, Len(created)) = created
          /\ \A t \in DOMAIN cache : TimesCreated(t)' = TimesCreated(t)]_vars

\* a later call ran on a transformer that an earlier call had created, and rewrote its literal
C11_Witness ==
    /\ calls >= 2
    /\ pc = "done"
    /\ Len(created) < calls
    /\ node.pos # -1
    /\ result # Body(node)

(***************************************************************************)
(* A call on its own: the same steps on a transformer created for it.      *)
(***************************************************************************)
RECURSIVE ScanToEnd(_, _, _, _, _)
ScanToEnd(st, txt, tStart, nd, ctx) ==
    LET r == scanStep(st, txt, tStart, nd, ctx)
    IN  IF r.pc = "scan" THEN ScanToEnd(r.st, txt, tStart, nd, r.context) ELSE r

CallAlone(nd, tgt) ==
    LET ctx == [luaTarget |-> tgt, diagnostics |-> <<>>]
        e == enterTransformer(<<>>, nd, ctx)
        r == ScanToEnd(e.cache[tgt], e.text, e.textStart, nd, ctx)
    IN  IF e.pc = "done"
        THEN [result |-> e.result, diagnostics |-> <<>>]
        ELSE [result |-> assembleResult(r.st, e.text, e.textStart, e.textEnd),
              diagnostics |-> r.context.diagnostics]

\* C12: in any sequence of sequential calls, the text a call returns and the
\* diagnostics it pushes are those of the same node and target on a newly
\* created transformer: nothing the earlier calls left in the cached
\* transformer's head, start or buffer shows in a later call.
C12_NoStateAcrossCalls ==
    pc = "done" =>
        /\ result = CallAlone(node, context.luaTarget).result
        /\ context.diagnostics = CallAlone(node, context.luaTarget).diagnostics

\* the second call on one transformer rewrote a hex escape and then aborted
C12_Witness ==
    /\ calls = 2
    /\ created = <<"Lua51">>
    /\ pc = "done"
    /\ Len(context.diagnostics) = 1
    /\ node = ParsedLiteral(<<Slash, X, 52, 49, Slash, U>>)
    /\ result = <<Slash, X, 52, 49, Slash, U>>

\* C13: when the scan steps of two calls are interleaved, each call returns
\* the text it returns when it runs alone.
C13_InterleavedAsAlone ==
    /\ pc = "done" => result = CallAlone(node, context.luaTarget).result
    /\ other.pc = "done" =>
           other.result = CallAlone(other.node, other.context.luaTarget).result

\* C14: a rewrite call pushes at most one diagnostic; it has pushed one
\* only if its target lacks Unicode escapes and its scan has ended by an
\* abort with the cursor on the u of a \u token (start back at textStart);
\* while the scan runs nothing has been pushed, and with a target that
\* supports Unicode escapes nothing is ever pushed.
C14_AtMostOneDiagnostic ==
    pc # "idle" =>
        LET target == context.luaTarget
            st == cache[target]
        IN  /\ Len(context.diagnostics) <= 1
            /\ pc = "scan" => context.diagnostics = <<>>
            /\ target \notin unsupportedUnicodeTargets => context.diagnostics = <<>>
            /\ Len(context.diagnostics) = 1 =>
                  /\ target \in unsupportedUnicodeTargets
                  /\ pc \in {"assemble", "done"}
                  /\ context.diagnostics[1] = unsupportedUnicodeEscape(node, target)
                  /\ CharCodeAt(text, st.head - 1) = Slash
                  /\ CharCodeAt(text, st.head) = U
                  /\ st.start = textStart

\* \x41\u{41} on Lua52: the hex escape is skipped, the braced \u aborts the scan
C14_Witness ==
    /\ Returned
    /\ context.luaTarget = "Lua52"
    /\ Span = <<Slash, X, 52, 49, Slash, U, OpenBrace, 52, 49, CloseBrace>>
    /\ context.diagnostics = <<unsupportedUnicodeEscape(node, "Lua52")>>
    /\ cache["Lua52"].head = textStart + 5

\* the well-formed text s ends in one more escape whose payload is cut short:
\* \x with fewer than two characters after it, or \u, not followed by a
\* brace, with fewer than four
EndsTruncated(s) ==
    \E k \in 1..(Len(s) - 1) :
        /\ WellFormed(SubSeq(s, 1, k - 1))
        /\ s[k] = Slash
        /\ \A j \in (k + 1)..Len(s) : s[j] # Slash
        /\ \/ s[k + 1] = X /\ Len(s) - (k + 1) < 2
           \/ /\ s[k + 1] = U
              /\ Len(s) - (k + 1) < 4
              /\ (k + 2 <= Len(s) => s[k + 2] # OpenBrace)

\* C15: a call on a literal whose last escape has a truncated payload
\* returns the original text[textStart, textEnd) (and so emits no character
\* from at or past textEnd).
C15_TruncatedPassThrough ==
    (Returned /\ EndsTruncated(Span)) => result = Span

\* C16 as stated: start <= head in every state of a call from the cursor
\* reset until the result is assembled.
C16_StartAtMostHead ==
    pc \in {"scan", "assemble"} =>
        cache[context.luaTarget].start <= cache[context.luaTarget].head

\* C16: start <= head holds while the scan loop runs and after an abort
\* (where start = textStart < head); when the loop has ended because no
\* further backslash was found, head is -1, below start.
C16_StartAtMostHeadWhileScanning ==
    LET st == cache[context.luaTarget]
    IN  /\ pc = "scan" => textStart <= st.start /\ st.start <= st.head
        /\ pc = "assemble" =>
              IF context.diagnostics # <<>>
              THEN st.start = textStart /\ st.start < st.head
              ELSE st.head = -1 /\ textStart <= st.start

\* a\x41 on Lua51: after the rewrite both cursors are past the token, and
\* the loop's last indexOf leaves head at -1
C16_Witness ==
    /\ pc = "assemble"
    /\ context.luaTarget = "Lua51"
    /\ Span = <<97, Slash, X, 52, 49>>
    /\ cache["Lua51"].start = textStart + 5
    /\ cache["Lua51"].head = -1

\* every escape of the well-formed s has a discriminator other than x and u
OtherEscapesOnly(s) == \A i \in Escapes(s) : s[i + 1] \notin {X, U}

\* C17: on every target, a literal all of whose escape tokens have a
\* discriminator other than x and u (so also an escaped backslash followed
\* by x41 or u0041) is returned character for character, nothing is
\* buffered for it while it is scanned, and no diagnostic is pushed.
C17_OtherEscapesKept ==
    (/\ pc \in {"scan", "assemble", "done"}
     /\ node.pos # -1
     /\ WellFormed(Span)
     /\ OtherEscapesOnly(Span)) =>
        /\ context.diagnostics = <<>>
        /\ pc # "done" => /\ cache[context.luaTarget].buffer = <<>>
                          /\ cache[context.luaTarget].start = textStart
        /\ pc = "done" => result = Span

\* a, an escaped backslash and u0041 on a target that rewrites neither
\* \x nor \u natively
C17_Witness ==
    /\ Returned
    /\ context.luaTarget = "Lua50"
    /\ Span = <<97, Slash, Slash, U, 48, 48, 52, 49>>
    /\ result = Span
    /\ context.diagnostics = <<>>

(***************************************************************************)
(* Progress of the scan loop.                                              *)
(***************************************************************************)
\* the backslash the next iteration finds (0-based, -1 if none), and the
\* number of backslashes of the text at or after offset h
FoundSlash == IndexOf(text, Slash, cache[context.luaTarget].head)
SlashesFrom(h) == Cardinality({i \in Max(h, 0)..(Len(text) - 1) : text[i + 1] = Slash})

\* C18 as stated: every call terminates, and every iteration that found a
\* backslash moves head forward by at least 2.
C18_HeadAdvancesByTwo ==
    /\ [][(pc = "scan" /\ FoundSlash >= 0) =>
             cache'[context.luaTarget].head >= cache[context.luaTarget].head + 2]_vars
    /\ (pc = "scan") ~> (pc = "done")

\* C18: every call that entered the scan returns; an iteration that found a
\* backslash either continues the scan with head at least 2 past that
\* backslash, and so with fewer backslashes left at or after head, or aborts
\* the scan with head 1 past it; head never moves back in such an iteration.
C18_Terminates ==
    /\ [][(pc = "scan" /\ FoundSlash >= 0) =>
             /\ cache'[context.luaTarget].head > cache[context.luaTarget].head
             /\ IF pc' = "scan"
                THEN /\ cache'[context.luaTarget].head >= FoundSlash + 2
                     /\ SlashesFrom(cache'[context.luaTarget].head)
                          < SlashesFrom(cache[context.luaTarget].head)
                ELSE /\ cache'[context.luaTarget].head = FoundSlash + 1
                     /\ pc' = "assemble"
                     /\ Len(context'.diagnostics) = 1]_vars
    /\ [][(pc = "scan" /\ FoundSlash < 0) => pc' = "assemble"]_vars
    /\ (pc = "scan") ~> (pc = "done")

\* \\\x41\u0041 on Lua52 has been scanned in three iterations, the last an abort
C18_Witness ==
    /\ Returned
    /\ context.luaTarget = "Lua52"
    /\ Span = <<Slash, Slash, Slash, X, 52, 49, Slash, U, 48, 48, 52, 49>>
    /\ cache["Lua52"].head = textStart + 7
    /\ Len(context.diagnostics) = 1

\* C19: in every state of a scan that has not aborted (nothing pushed) the
\* buffer is non-empty exactly when start is past textStart, and the step
\* that assembles the result of such a scan returns
\* buffer + text[start, textEnd): no rewrite is dropped.
C19_FlagNeverDropsRewrite ==
    /\ [](pc \in {"scan", "assemble"} /\ context.diagnostics = <<>> =>
             LET st == cache[context.luaTarget]
             IN  /\ textStart <= st.start
                 /\ st.buffer # <<>> <=> st.start > textStart)
    /\ [][pc = "assemble" /\ context.diagnostics = <<>> =>
             result' = cache[context.luaTarget].buffer
                         \o Slice(text, cache[context.luaTarget].start, textEnd)]_vars

\* \x41a on Lua50: the scan ended with \65 buffered and start past the token
C19_Witness ==
    /\ pc = "assemble"
    /\ context.luaTarget = "Lua50"
    /\ context.diagnostics = <<>>
    /\ Span = <<Slash, X, 52, 49, 97>>
    /\ cache["Lua50"].buffer = <<Slash, 54, 53>>
    /\ cache["Lua50"].start = textStart + 4

(***************************************************************************)
(* The range of encodeUTF8's output.                                       *)
(***************************************************************************)
\* s without its \ddd tokens
RECURSIVE WithoutByteEscapesFrom(_, _)
WithoutByteEscapesFrom(s, i) ==
    IF i > Len(s) THEN <<>>
    ELSE IF s[i] = Slash THEN WithoutByteEscapesFrom(s, i + 1 + DecimalRun(s, i + 1))
    ELSE <<s[i]>> \o WithoutByteEscapesFrom(s, i + 1)

\* the values of the \ddd tokens of s
RECURSIVE ByteEscapeValuesFrom(_, _)
ByteEscapeValuesFrom(s, i) ==
    IF i > Len(s) THEN {}
    ELSE IF s[i] = Slash
         THEN {DecimalValue(SubSeq(s, i + 1, i + DecimalRun(s, i + 1)))}
              \cup ByteEscapeValuesFrom(s, i + 1 + DecimalRun(s, i + 1))
    ELSE ByteEscapeValuesFrom(s, i + 1)

AtMost255(c) == c <= 255

\* C20: for every input string, also with unpaired high or low surrogates,
\* the buffer and the output of encodeUTF8 hold only code units at or below
\* 0xFF; apart from the byte-escape tokens the output is the input's code
\* units at or below 0xFF in order (every unit above 0xFF is replaced by
\* tokens or removed), and every token's value is in 0..255.
C20_OutputAtMost255 ==
    /\ \A i \in 1..Len(buffer) : buffer[i] <= 255
    /\ upc = "done" =>
          /\ \A i \in 1..Len(encoded) : encoded[i] <= 255
          /\ WithoutByteEscapesFrom(encoded, 1) = SelectSeq(str, AtMost255)
          /\ ByteEscapeValuesFrom(encoded, 1) \subseteq 0..255
          /\ (\E i \in 1..Len(str) : str[i] > 255 /\ ~IsLowSurrogate(str[i]))
                => ByteEscapeValuesFrom(encoded, 1) # {}

\* an unpaired low surrogate, 0xFF, an unpaired high surrogate: the low one
\* is removed, 0xFF kept, the high one encoded as \237\160\189
C20_Witness ==
    /\ upc = "done"
    /\ str = <<56832, 255, 55357>>
    /\ encoded = <<255, Slash, 50, 51, 55, Slash, 49, 54, 48, Slash, 49, 56, 57>>

====
